---------------------------- MODULE Spec2Model ----------------------------
(***************************************************************************)
(* Model of winit's X11 startup-notification code                          *)
(* (src/src/platform_impl/linux/x11/activation.rs).                        *)
(*                                                                         *)
(* Byte strings are sequences of byte values (0..255).  A u32 is the set   *)
(* of the positions (0..31) of its one-bits: TLC's integers are signed     *)
(* 32-bit, so 0xDEADBEEF is not a TLC integer; shifts drop the bits that    *)
(* leave 0..31, which is arithmetic modulo 2^32.                            *)
(***************************************************************************)
EXTENDS Integers, Sequences, FiniteSets, TLC

(***************************************************************************)
(* Bounds of the model.                                                    *)
(***************************************************************************)
\* number of request_activation_token calls explored
MaxTokenCalls == 10
\* number of send_message / remove_activation_token calls explored
MaxCalls == 2
\* number of request_activation_token calls explored when callers overlap
MaxConcCalls == 4
\* clock ticks the event loop of the example is followed for
MaxTicks == 6
\* token requests the example's user triggers
MaxRequests == 2
\* windows the example creates
MaxWindows == 3

(***************************************************************************)
(* Program constants.                                                      *)
(***************************************************************************)
\* `.chunks(20)`
ChunkSize == 20
\* `[0u8; 20]`
BufferLen == 20
\* `r ^= r << 13`
Shift1 == 13
\* `r ^= r >> 17`
Shift2 == 17
\* `r ^= r << 5`
Shift3 == 5
\* width of xproto::Timestamp / AtomicU32
U32Bits == 32
\* examples/startup_notification.rs: Duration::from_secs(2), in milliseconds
DeadlineMillis == 2000
\* examples/startup_notification.rs: Duration::from_millis(250)
DebounceMillis == 250
\* step of the model's clock (Instant::now()), in milliseconds
TickMillis == 1000

Min(a, b) == IF a < b THEN a ELSE b

(***************************************************************************)
(* u32 arithmetic on bit sets.                                             *)
(***************************************************************************)
BitPos == 0 .. (U32Bits - 1)

RECURSIVE Pow2(_)
Pow2(n) == IF n = 0 THEN 1 ELSE 2 * Pow2(n - 1)

\* the bits of a 16-bit number n, placed at positions base .. base+15
HalfBits(n, base) == { base + i : i \in { j \in 0 .. 15 : (n \div Pow2(j)) % 2 = 1 } }

\* the u32 with the given 16-bit halves: hi * 2^16 + lo
U32(hi, lo) == HalfBits(hi, 16) \cup HalfBits(lo, 0)

RECURSIVE HalfValue(_, _, _)
HalfValue(x, base, i) ==
    IF i > 15 THEN 0
    ELSE (IF (base + i) \in x THEN Pow2(i) ELSE 0) + HalfValue(x, base, i + 1)

\* the high and low 16-bit halves of a u32, as numbers
Hi(x) == HalfValue(x, 16, 0)
Lo(x) == HalfValue(x, 0, 0)

\* `a << n` on u32: bits shifted past bit 31 are lost
Shl(x, n) == { i + n : i \in x } \cap BitPos
\* `a >> n` on u32 (logical shift)
Shr(x, n) == { i - n : i \in { j \in x : j >= n } }
\* `a ^ b`
Xor(a, b) == (a \ b) \cup (b \ a)

\* AtomicU32::new(0xDEADBEEF): 0xDEAD = 57005, 0xBEEF = 48879
SEED_INIT == U32(57005, 48879)

\* a generator written with `&=` in place of `^=`
XorshiftAnd(seed) ==
    LET r1 == seed \cap Shl(seed, Shift1)
        r2 == r1 \cap Shr(r1, Shift2)
        r3 == r2 \cap Shl(r2, Shift3)
    IN  r3

\* lines 78-81: r = seed; r ^= r << 13; r ^= r >> 17; r ^= r << 5
Xorshift(seed) ==
    LET r1 == Xor(seed, Shl(seed, Shift1))
        r2 == Xor(r1, Shr(r1, Shift2))
        r3 == Xor(r2, Shl(r2, Shift3))
    IN  r3

\* a store that writes back the value that was loaded
StoredSeedStale(seed, r) == seed

\* line 82: SEED.store(r)
StoredSeed(seed, r) == r

\* a return of the advanced value
TimestampResultAdvanced(seed, r) == r

\* line 83: Ok(seed)
TimestampResult(seed, r) == seed

(***************************************************************************)
(* Decimal formatting (`{}` of an integer) as ASCII digits.                *)
(***************************************************************************)
RECURSIVE DecimalNat(_)
DecimalNat(n) ==
    IF n < 10 THEN << 48 + n >>
    ELSE DecimalNat(n \div 10) \o << 48 + (n % 10) >>

\* decimal digits of hi * 2^16 + lo, by long division on the two halves
RECURSIVE DecimalHalves(_, _)
DecimalHalves(hi, lo) ==
    LET t  == (hi % 10) * 65536 + lo
        qh == hi \div 10
        ql == t \div 10
        d  == t % 10
    IN  IF qh = 0 /\ ql = 0 THEN << 48 + d >>
        ELSE DecimalHalves(qh, ql) \o << 48 + d >>

\* `{}` of a u32
DecimalU32(x) == DecimalHalves(Hi(x), Lo(x))

(***************************************************************************)
(* request_activation_token                                                *)
(***************************************************************************)
\* "_TIME"
TIME_MARK == << 95, 84, 73, 77, 69 >>
\* "winit"
FALLBACK_NAME == << 119, 105, 110, 105, 116 >>

\* node names uname() may report: "host", "a", and one that is not UTF-8
Nodenames ==
    { [utf8 |-> TRUE,  bytes |-> << 104, 111, 115, 116 >>],
      [utf8 |-> TRUE,  bytes |-> << 97 >>],
      [utf8 |-> FALSE, bytes |-> << 255, 104 >>] }

\* process ids getpid() may report
Pids == { 1, 4242 }

\* uname.nodename().to_str().unwrap_or("winit")
NodenameStr(n) == IF n.utf8 THEN n.bytes ELSE FALLBACK_NAME

\* format!("{}{}_TIME{}", nodename, pid, time)
ActivationToken(node, p, time) ==
    NodenameStr(node) \o DecimalNat(p) \o TIME_MARK \o DecimalU32(time)


(***************************************************************************)
(* remove_activation_token and send_message                                *)
(***************************************************************************)
\* const MESSAGE_ROOT: &str = "remove: ID="
MESSAGE_ROOT == << 114, 101, 109, 111, 118, 101, 58, 32, 73, 68, 61 >>

\* a completion message without its terminating null byte
CompletionMessageNoNul(id) == MESSAGE_ROOT \o id

\* lines 55-66: push_str(MESSAGE_ROOT); push_str(startup_id); push('\0')
CompletionMessage(id) == (MESSAGE_ROOT \o id) \o << 0 >>

\* a chunk iterator that yields windows one byte too short
ChunksNextShort(rest) ==
    LET n == Min(ChunkSize - 1, Len(rest))
    IN  [ chunk |-> SubSeq(rest, 1, n), rest |-> SubSeq(rest, n + 1, Len(rest)) ]

\* a chunk iterator that walks the slice from its end (`rchunks`)
ChunksNextBack(rest) ==
    LET n == Min(ChunkSize, Len(rest))
    IN  [ chunk |-> SubSeq(rest, Len(rest) - n + 1, Len(rest)),
          rest  |-> SubSeq(rest, 1, Len(rest) - n) ]

\* line 122, `message.chunks(20)`, Iterator::next on a non-empty slice: the
\* first min(20, len) bytes are yielded, the iterator keeps what follows
ChunksNext(rest) ==
    LET n == Min(ChunkSize, Len(rest))
    IN  [ chunk |-> SubSeq(rest, 1, n), rest |-> SubSeq(rest, n + 1, Len(rest)) ]

\* a buffer whose tail is not cleared
PadDirty(chunk) ==
    [ i \in 1 .. BufferLen |-> IF i <= Len(chunk) THEN chunk[i] ELSE 255 ]

\* lines 124-125: buffer = [0u8; 20]; buffer[..chunk.len()].copy_from_slice(chunk)
Pad(chunk) ==
    [ i \in 1 .. BufferLen |-> IF i <= Len(chunk) THEN chunk[i] ELSE 0 ]

\* line 120: let mut message_type = atoms[_NET_STARTUP_INFO_BEGIN]
FirstMessageType == "_NET_STARTUP_INFO_BEGIN"

\* a closure that never switches to the continuation atom
NextMessageTypeKept(t) == t

\* line 129: message_type = atoms[_NET_STARTUP_INFO]
NextMessageType(t) == "_NET_STARTUP_INFO"

\* a request as it goes out on the connection
Request(req, w, type, data) ==
    [ req |-> req, window |-> w, type |-> type, data |-> data ]

\* line 126: ClientMessageEvent::new(8, window, message_type, buffer), sent by
\* send_event (lines 135-141)
ClientMessageEvent(w, type, buffer) == Request("SendEvent", w, type, buffer)

\* a scope exit that forgets the guard
UnwindNoDrop(armed) == "idle"

\* lines 113-117, 149-155: leaving send_message after `_drop_window` was
\* created runs the CallOnDrop closure before control returns to the caller
Unwind(armed) == IF armed THEN "drop" ELSE "idle"

\* a loop that goes on to the next chunk whatever send_event returned
AfterSendForEach(sent, armed) == "send"

\* lines 133-143: try_for_each goes on while send_event returns Ok and stops
\* at the first Err, which `?` returns from send_message
AfterSend(sent, armed) == IF sent THEN "send" ELSE Unwind(armed)

\* a create_window whose send error is dropped as well
CreateFailsNever(outcome) == FALSE

\* lines 110-111: `?` returns when the request could not be sent;
\* ignore_error() discards whatever the server answers
CreateFails(outcome) == outcome = "not_sent"

\* a check that lets a server error pass
CheckFailsNever(err) == FALSE

\* line 52: `.check()?` returns the error the server reported for the request
CheckFails(err) == err

\* results of a call
Ok == [ ok |-> TRUE, err |-> "none", chunk |-> -1 ]
Err(what, k) == [ ok |-> FALSE, err |-> what, chunk |-> k ]
NoResult == [ ok |-> FALSE, err |-> "pending", chunk |-> -1 ]

\* windows of the application that startup ids are set on
AppWindows == { 1, 2 }
\* first id generate_id hands out for a proxy window
FirstProxyId == 3

NoProperty == [ present |-> FALSE, value |-> << >> ]
Property(v) == [ present |-> TRUE, value |-> v ]

\* a run of n bytes, none of them zero
Bytes(n) == [ i \in 1 .. n |-> 64 + (i % 26) ]

\* "T123"
T123 == << 84, 49, 50, 51 >>

\* startup ids handed to remove_activation_token: the empty id, "T123", ids
\* that make the message 20, 21 and 41 bytes long, and a generated token
StartupIds(node, p, seed) ==
    { << >>, T123, Bytes(8), Bytes(9), Bytes(29), ActivationToken(node, p, seed) }

\* buffers handed to send_message directly: empty, one null byte, 19, 20 and
\* 40 bytes
Buffers == { << >>, << 0 >>, Bytes(19), Bytes(20), Bytes(40) }

\* threads that may call into the connection; the event loop runs on MainThread
MainThread == "main"
Callers == { "main", "other" }

VARIABLES
    SEED,          \* static SEED: AtomicU32 (line 74)
    tpc,           \* per caller: position in x11_timestamp ("idle", "loaded")
    tseed,         \* per caller: the local `seed` (line 75)
    issued,        \* results of request_activation_token so far, in return order
    nodename,      \* what uname() reports in this process
    pid,           \* what getpid() reports in this process
    pc,            \* position of the main thread in remove_activation_token / send_message
    calls,         \* calls started so far
    entry,         \* which function the current (or last) call entered at
    target,        \* `window` argument of remove_activation_token
    startup_id,    \* `startup_id` argument of remove_activation_token
    cpError,       \* the server reported an error for the ChangeProperty request
    checked,       \* `.check()` returned Ok for the ChangeProperty request
    message,       \* `message` argument of send_message
    window,        \* id of the proxy window (0: none generated)
    armed,         \* `_drop_window` exists
    message_type,  \* the captured `message_type` (line 120)
    rest,          \* what the chunk iterator has not yielded yet
    wire,          \* requests the call has put on the connection, in order
    result,        \* what the call returned (or will return once the guard ran)
    failed,        \* index of the first chunk whose send_event failed (-1: none)
    creation,      \* how creating the proxy window went in this call
    destroy,       \* how the guard's destroy_window went in this call
    nextId,        \* next id generate_id hands out
    live,          \* proxy windows that exist on the server
    props,         \* _NET_STARTUP_ID of each application window on the server
    \* examples/startup_notification.rs
    started,       \* NewEvents(StartCause::Init) was delivered
    status,        \* "running", "exited" (flow.set_exit) or "panicked"
    now,           \* Instant::now(), in milliseconds since main began
    current_token, \* `current_token: Option<ActivationToken>` (line 28)
    window_deadline, \* `window_deadline: Option<Instant>` (line 38)
    last_window_created, \* `last_window_created: Instant` (line 39)
    windows,       \* keys of `windows: HashMap<WindowId, Rc<Window>>` (line 36)
    counter,       \* `counter` (line 37)
    flow,          \* the ControlFlow the callback left
    pending,       \* token requests the platform has not answered yet
    requests,      \* token requests made so far
    built,         \* windows built so far, each with the token it was built with
    delivered,     \* tokens delivered by ActivationTokenDone, in order
    orphaned,      \* tokens whose request's window was closed before delivery
    lastEvent,     \* the event the closure has just handled ("Tick": time
                   \* has passed since it ran)
    createdNow     \* the closure has just built a window

seedVars == << SEED, tpc, tseed, issued >>
procVars == << nodename, pid >>
callVars == << pc, calls, entry, target, startup_id, cpError, checked, message,
               window, armed, message_type, rest, wire, result, failed, creation,
               destroy >>
serverVars == << nextId, live, props >>
loopVars == << started, status, now, current_token, window_deadline,
               last_window_created, windows, counter, flow, pending, requests,
               built, delivered, orphaned, lastEvent, createdNow >>
vars == << seedVars, procVars, callVars, serverVars, loopVars >>

\* Option<T>
None == [ some |-> FALSE, val |-> 0 ]
Some(v) == [ some |-> TRUE, val |-> v ]

\* the token read_token_from_env() finds; the k-th requested token is k
EnvToken == 0

\* ControlFlow
Flow(kind, until) == [ kind |-> kind, until |-> until ]

\* lines 27-39 of the example: the state main() hands to event_loop.run;
\* `env` is what read_token_from_env() returned
LoopInit(env) ==
    /\ started = FALSE
    /\ status = "running"
    /\ now = 0
    /\ current_token = env
    /\ window_deadline = Some(0 + DeadlineMillis)
    /\ last_window_created = 0
    /\ windows = {}
    /\ counter = 0
    /\ flow = Flow("Poll", 0)
    /\ pending = {}
    /\ requests = 0
    /\ built = << >>
    /\ delivered = << >>
    /\ orphaned = {}
    /\ lastEvent = "none"
    /\ createdNow = FALSE

Init ==
    /\ LoopInit(None)
    /\ SEED = SEED_INIT
    /\ tpc = [ c \in Callers |-> "idle" ]
    /\ tseed = [ c \in Callers |-> {} ]
    /\ issued = << >>
    /\ nodename \in Nodenames
    /\ pid \in Pids
    /\ pc = "idle"
    /\ calls = 0
    /\ entry = "none"
    /\ target = 0
    /\ startup_id = << >>
    /\ cpError = FALSE
    /\ checked = FALSE
    /\ message = << >>
    /\ window = 0
    /\ armed = FALSE
    /\ message_type = FirstMessageType
    /\ rest = << >>
    /\ wire = << >>
    /\ result = NoResult
    /\ failed = -1
    /\ creation = "none"
    /\ destroy = "none"
    /\ nextId = FirstProxyId
    /\ live = {}
    /\ props = [ w \in AppWindows |-> NoProperty ]

(***************************************************************************)
(* x11_timestamp inside request_activation_token, one caller               *)
(***************************************************************************)
\* lines 19-21, 75: uname, getpid, then x11_timestamp loads the seed
LoadSeed(c) ==
    /\ tpc[c] = "idle"
    /\ Len(issued) < MaxTokenCalls
    /\ tseed' = [ tseed EXCEPT ![c] = SEED ]
    /\ tpc' = [ tpc EXCEPT ![c] = "loaded" ]
    /\ UNCHANGED << SEED, issued, procVars, callVars, serverVars, loopVars >>

\* lines 78-83, 23-30: advance, store, return the loaded value; format the token
StoreSeed(c) ==
    /\ tpc[c] = "loaded"
    /\ LET seed == tseed[c]
           r    == Xorshift(seed)
           time == TimestampResult(seed, r)
       IN  /\ SEED' = StoredSeed(seed, r)
           /\ issued' = Append(issued,
                  [ caller |-> c, time |-> time,
                    token |-> ActivationToken(nodename, pid, time) ])
    /\ tpc' = [ tpc EXCEPT ![c] = "idle" ]
    /\ UNCHANGED << tseed, procVars, callVars, serverVars, loopVars >>

RequestLoad == LoadSeed(MainThread)
RequestStore == StoreSeed(MainThread)

NextSeed == RequestLoad \/ RequestStore

\* request_activation_token called again and again by the event-loop thread
SpecSeed == Init /\ [][NextSeed]_vars

(***************************************************************************)
(* x11_timestamp called from several threads: SEED is a static shared by   *)
(* every caller, and the load (line 75) and the store (line 82) are two     *)
(* separate atomic operations that other callers' steps may fall between.  *)
(***************************************************************************)
ConcLoad(c) ==
    /\ Len(issued) < MaxConcCalls
    /\ LoadSeed(c)

ConcStore(c) == StoreSeed(c)

NextConc == \E c \in Callers : ConcLoad(c) \/ ConcStore(c)

SpecConc == Init /\ [][NextConc]_vars

(***************************************************************************)
(* remove_activation_token and send_message, step by step.  A request      *)
(* that was put on the connection is applied by the server at once: the    *)
(* connection keeps the order of the requests.                             *)
(***************************************************************************)
SendEvents(w) == SelectSeq(w, LAMBDA q : q.req = "SendEvent")

\* the state of the call's locals when a call begins
EnterCall(fn, w, id) ==
    /\ calls' = calls + 1
    /\ entry' = fn
    /\ target' = w
    /\ startup_id' = id
    /\ checked' = FALSE
    /\ window' = 0
    /\ armed' = FALSE
    /\ message_type' = FirstMessageType
    /\ rest' = << >>
    /\ failed' = -1
    /\ creation' = "none"
    /\ destroy' = "none"

\* lines 34-52: remove_activation_token(window, startup_id) issues ChangeProperty
ChangeProperty ==
    /\ pc = "idle"
    /\ calls < MaxCalls
    /\ \E w \in AppWindows, id \in StartupIds(nodename, pid, SEED) :
        /\ EnterCall("remove_activation_token", w, id)
        /\ message' = << >>
        /\ \/ \* `change_property(..)?`: the request could not be sent
              /\ pc' = "idle"
              /\ result' = Err("change_property", -1)
              /\ wire' = << >>
              /\ cpError' = FALSE
              /\ props' = props
           \/ \* sent, and the server replaces the property
              /\ pc' = "check"
              /\ result' = NoResult
              /\ wire' = << Request("ChangeProperty", w, "_NET_STARTUP_ID", id) >>
              /\ cpError' = FALSE
              /\ props' = [ props EXCEPT ![w] = Property(id) ]
           \/ \* sent, and the server answers with an error
              /\ pc' = "check"
              /\ result' = NoResult
              /\ wire' = << Request("ChangeProperty", w, "_NET_STARTUP_ID", id) >>
              /\ cpError' = TRUE
              /\ props' = props
    /\ UNCHANGED << loopVars, seedVars, procVars, nextId, live >>

\* lines 52-68: `.check()?`, then the message is built and send_message entered
CheckProperty ==
    /\ pc = "check"
    /\ IF CheckFails(cpError)
       THEN /\ pc' = "idle"
            /\ result' = Err("check", -1)
            /\ UNCHANGED << checked, message >>
       ELSE /\ pc' = "generate_id"
            /\ checked' = TRUE
            /\ message' = CompletionMessage(startup_id)
            /\ UNCHANGED result
    /\ UNCHANGED << loopVars, seedVars, procVars, serverVars, calls, entry, target,
                    startup_id, cpError, window, armed, message_type, rest,
                    wire, failed, creation, destroy >>

\* line 87: send_message(message) entered with a buffer of the caller's
SendMessage ==
    /\ pc = "idle"
    /\ calls < MaxCalls
    /\ \E m \in Buffers :
        /\ EnterCall("send_message", 0, << >>)
        /\ message' = m
    /\ pc' = "generate_id"
    /\ result' = NoResult
    /\ wire' = << >>
    /\ cpError' = FALSE
    /\ UNCHANGED << loopVars, seedVars, procVars, serverVars >>

\* line 92: let window = generate_id()?
GenerateId ==
    /\ pc = "generate_id"
    /\ \/ /\ pc' = "idle"
          /\ result' = Err("generate_id", -1)
          /\ creation' = "no_id"
          /\ UNCHANGED << window, nextId >>
       \/ /\ pc' = "create_window"
          /\ window' = nextId
          /\ nextId' = nextId + 1
          /\ UNCHANGED << result, creation >>
    /\ UNCHANGED << loopVars, seedVars, procVars, live, props, calls, entry, target,
                    startup_id, cpError, checked, message, armed,
                    message_type, rest, wire, failed, destroy >>

\* lines 93-120: create_window(..)?.ignore_error(), then the guard and the
\* captured message type
CreateWindow ==
    /\ pc = "create_window"
    /\ \E outcome \in { "not_sent", "created", "rejected" } :
        /\ creation' = outcome
        /\ IF CreateFails(outcome)
           THEN /\ pc' = "idle"
                /\ result' = Err("create_window", -1)
                /\ UNCHANGED << armed, message_type, rest, wire, live >>
           ELSE \* sent; the server makes the window ("created") or answers
                \* with an error ("rejected")
                /\ wire' = IF outcome = "not_sent" THEN wire
                           ELSE Append(wire,
                                    Request("CreateWindow", window, "none", << >>))
                /\ live' = IF outcome = "created" THEN live \cup { window } ELSE live
                /\ armed' = TRUE
                /\ message_type' = FirstMessageType
                /\ rest' = message
                /\ pc' = "send"
                /\ UNCHANGED result
    /\ UNCHANGED << loopVars, seedVars, procVars, nextId, props, calls, entry, target,
                    startup_id, cpError, checked, message, window, failed,
                    destroy >>

\* lines 121-143: the next chunk is taken, padded, wrapped in an event under
\* the current message type, the type is switched, and the event is sent
SendChunk ==
    /\ pc = "send"
    /\ rest # << >>
    /\ LET next  == ChunksNext(rest)
           event == ClientMessageEvent(window, message_type, Pad(next.chunk))
           k     == Len(SendEvents(wire))
       IN  /\ message_type' = NextMessageType(message_type)
           /\ rest' = next.rest
           /\ \E sent \in BOOLEAN :
                /\ pc' = AfterSend(sent, armed)
                /\ IF sent
                   THEN /\ wire' = Append(wire, event)
                        /\ UNCHANGED << result, failed >>
                   ELSE /\ result' = Err("send_event", k)
                        /\ failed' = IF failed = -1 THEN k ELSE failed
                        /\ UNCHANGED wire
    /\ UNCHANGED << loopVars, seedVars, procVars, serverVars, calls, entry, target,
                    startup_id, cpError, checked, message, window, armed,
                    creation, destroy >>

\* lines 143-146: the iterator is exhausted, Ok(()) is returned
FinishSend ==
    /\ pc = "send"
    /\ rest = << >>
    /\ result' = Ok
    /\ pc' = Unwind(armed)
    /\ UNCHANGED << loopVars, seedVars, procVars, serverVars, calls, entry, target,
                    startup_id, cpError, checked, message, window, armed,
                    message_type, rest, wire, failed, creation, destroy >>

\* lines 113-117: the guard's closure: destroy_window, its result dropped
DropWindow ==
    /\ pc = "drop"
    /\ \/ \* Ok(token): the request is sent, token.ignore_error()
          /\ wire' = Append(wire, Request("DestroyWindow", window, "none", << >>))
          /\ live' = live \ { window }
          /\ destroy' = "sent"
       \/ \* Err: the request could not be sent
          /\ destroy' = "not_sent"
          /\ UNCHANGED << wire, live >>
    /\ armed' = FALSE
    /\ pc' = "idle"
    /\ UNCHANGED << loopVars, seedVars, procVars, nextId, props, calls, entry, target,
                    startup_id, cpError, checked, message, window,
                    message_type, rest, result, failed, creation >>

Next ==
    \/ ChangeProperty
    \/ CheckProperty
    \/ SendMessage
    \/ GenerateId
    \/ CreateWindow
    \/ SendChunk
    \/ FinishSend
    \/ DropWindow

Spec == Init /\ [][Next]_vars

(***************************************************************************)
(* examples/startup_notification.rs: the closure given to event_loop.run.  *)
(* Every action below is one call of the closure: the arm of the `match`   *)
(* for the event, then the deadline check (lines 104-123) and the control  *)
(* flow (lines 125-128).  Time is read once per call.                      *)
(***************************************************************************)
\* line 105: window_deadline.map_or(false, |d| d <= Instant::now())
DeadlinePassed(dl, t) == dl.some /\ dl.val <= t

\* a handler that arms the deadline when it requests a token
DeadlineAfterKeyArmed(dl, t) == Some(t + DeadlineMillis)

\* lines 59-73: the KeyboardInput arm does not assign window_deadline
DeadlineAfterKey(dl, t) == dl

\* line 91: window_deadline = Some(Instant::now() + Duration::from_secs(2))
DeadlineAfterToken(dl, t) == Some(t + DeadlineMillis)

\* line 92: current_token = Some(token)
TokenAfterDone(held, token) == Some(token)

\* a builder that leaves the token in place (`as_ref()` for `take()`)
TokenAfterBuildKept(held) == held

\* line 111: current_token.take() leaves None
TokenAfterBuild(held) == None

\* a creation that leaves the deadline armed
DeadlineAfterBuildKept(dl) == dl

\* line 122: window_deadline = None
DeadlineAfterBuild(dl) == None

\* lines 60-62: logical_key == "n" && diff_time > Duration::from_millis(250),
\* diff_time = now.saturating_duration_since(last_window_created)
WantsToken(key, t, last) ==
    LET diff_time == IF t >= last THEN t - last ELSE 0
    IN  key = "n" /\ diff_time > DebounceMillis

\* lines 125-128
FlowFor(dl) == IF dl.some THEN Flow("WaitUntil", dl.val) ELSE Flow("Wait", 0)

\* lines 104-128, entered with the values the match arm left in
\* window_deadline, current_token and windows
DeadlineCheck(dl, tok, wins) ==
    IF DeadlinePassed(dl, now)
    THEN /\ counter < MaxWindows
         /\ \/ \* builder.build(elwt) returned Ok
               /\ built' = Append(built, [ id |-> counter + 1, token |-> tok,
                                           at |-> now ])
               /\ windows' = wins \cup { counter + 1 }
               /\ current_token' = TokenAfterBuild(tok)
               /\ counter' = counter + 1
               /\ window_deadline' = DeadlineAfterBuild(dl)
               /\ flow' = FlowFor(DeadlineAfterBuild(dl))
               /\ status' = status
               /\ createdNow' = TRUE
            \/ \* builder.build(elwt) returned Err: unwrap() panics (line 115)
               /\ status' = "panicked"
               /\ current_token' = TokenAfterBuild(tok)
               /\ windows' = wins
               /\ window_deadline' = dl
               /\ createdNow' = FALSE
               /\ UNCHANGED << built, counter, flow >>
    ELSE /\ windows' = wins
         /\ current_token' = tok
         /\ window_deadline' = dl
         /\ flow' = FlowFor(dl)
         /\ createdNow' = FALSE
         /\ UNCHANGED << built, counter, status >>

x11Vars == << seedVars, procVars, callVars, serverVars >>

\* lines 43-45: Event::NewEvents(StartCause::Init), the first event
NewEventsInit ==
    /\ status = "running"
    /\ ~started
    /\ started' = TRUE
    /\ lastEvent' = "Init"
    /\ DeadlineCheck(window_deadline, current_token, windows)
    /\ UNCHANGED << x11Vars, now, last_window_created, pending, requests,
                    delivered, orphaned >>

\* lines 47-73: WindowEvent::KeyboardInput, state Pressed, on window_id
KeyboardInput ==
    /\ status = "running"
    /\ started
    /\ \E window_id \in 1 .. counter, key \in { "n", "x" } :
         IF WantsToken(key, now, last_window_created) /\ window_id \in windows
         THEN /\ requests < MaxRequests
              /\ last_window_created' = now
              /\ requests' = requests + 1
              /\ \/ \* request_activation_token() returned Ok: the platform
                    \* will answer with ActivationTokenDone
                    /\ pending' = pending \cup
                           { [ win |-> window_id, tok |-> requests + 1 ] }
                    /\ lastEvent' = "KeyboardInput:requested"
                    /\ DeadlineCheck(DeadlineAfterKey(window_deadline, now),
                                     current_token, windows)
                 \/ \* it returned Err: expect() panics (lines 68-70)
                    /\ status' = "panicked"
                    /\ lastEvent' = "KeyboardInput:failed"
                    /\ createdNow' = FALSE
                    /\ UNCHANGED << pending, current_token, window_deadline,
                                    windows, counter, flow, built >>
         ELSE /\ lastEvent' = "KeyboardInput"
              /\ DeadlineCheck(window_deadline, current_token, windows)
              /\ UNCHANGED << last_window_created, requests, pending >>
    /\ UNCHANGED << x11Vars, started, now, delivered, orphaned >>

\* lines 75-85: WindowEvent::CloseRequested on window_id
CloseRequested ==
    /\ status = "running"
    /\ started
    /\ \E window_id \in windows :
         LET left == windows \ { window_id }
         IN  /\ orphaned' = orphaned \cup
                    { q.tok : q \in { r \in pending : r.win = window_id } }
             /\ lastEvent' = "CloseRequested"
             /\ IF left = {}
                THEN \* flow.set_exit(); return
                     /\ windows' = left
                     /\ flow' = Flow("Exit", 0)
                     /\ status' = "exited"
                     /\ createdNow' = FALSE
                     /\ UNCHANGED << current_token, window_deadline, counter,
                                     built >>
                ELSE DeadlineCheck(window_deadline, current_token, left)
    /\ UNCHANGED << x11Vars, started, now, last_window_created, pending,
                    requests, delivered >>

\* lines 87-93: WindowEvent::ActivationTokenDone { token, .. } on any window
ActivationTokenDone ==
    /\ status = "running"
    /\ started
    /\ \E q \in pending :
         /\ pending' = pending \ { q }
         /\ delivered' = Append(delivered, [ tok |-> q.tok, at |-> now,
                                              nbuilt |-> Len(built) ])
         /\ lastEvent' = "ActivationTokenDone"
         /\ DeadlineCheck(DeadlineAfterToken(window_deadline, now),
                          TokenAfterDone(current_token, q.tok), windows)
    /\ UNCHANGED << x11Vars, started, now, last_window_created, requests,
                    orphaned >>

\* lines 95-99: Event::RedrawRequested(id); fill_window paints, nothing else
RedrawRequested ==
    /\ status = "running"
    /\ started
    /\ \E id \in 1 .. counter :
         /\ lastEvent' = "RedrawRequested"
         /\ DeadlineCheck(window_deadline, current_token, windows)
    /\ UNCHANGED << x11Vars, started, now, last_window_created, pending,
                    requests, delivered, orphaned >>

\* line 101: `_ => {}`, every other event, among them the wake-up the loop
\* makes when the WaitUntil instant is reached
OtherEvent ==
    /\ status = "running"
    /\ started
    /\ lastEvent' = "Other"
    /\ DeadlineCheck(window_deadline, current_token, windows)
    /\ UNCHANGED << x11Vars, started, now, last_window_created, pending,
                    requests, delivered, orphaned >>

\* time passes between two calls of the closure
Tick ==
    /\ status = "running"
    /\ now < MaxTicks * TickMillis
    /\ now' = now + TickMillis
    /\ lastEvent' = "Tick"
    /\ createdNow' = FALSE
    /\ UNCHANGED << x11Vars, started, status, current_token, window_deadline,
                    last_window_created, windows, counter, flow, pending,
                    requests, built, delivered, orphaned >>

NextLoop ==
    \/ NewEventsInit
    \/ KeyboardInput
    \/ CloseRequested
    \/ ActivationTokenDone
    \/ RedrawRequested
    \/ OtherEvent
    \/ Tick

\* the x11 side at rest, one node name and pid
X11Idle ==
    /\ SEED = SEED_INIT
    /\ tpc = [ c \in Callers |-> "idle" ]
    /\ tseed = [ c \in Callers |-> {} ]
    /\ issued = << >>
    /\ nodename = [ utf8 |-> TRUE, bytes |-> << 104, 111, 115, 116 >> ]
    /\ pid = 1
    /\ pc = "idle"
    /\ calls = 0
    /\ entry = "none"
    /\ target = 0
    /\ startup_id = << >>
    /\ cpError = FALSE
    /\ checked = FALSE
    /\ message = << >>
    /\ window = 0
    /\ armed = FALSE
    /\ message_type = FirstMessageType
    /\ rest = << >>
    /\ wire = << >>
    /\ result = NoResult
    /\ failed = -1
    /\ creation = "none"
    /\ destroy = "none"
    /\ nextId = FirstProxyId
    /\ live = {}
    /\ props = [ w \in AppWindows |-> NoProperty ]

\* lines 28-34: the environment holds a token or it does not
InitLoop ==
    /\ X11Idle
    /\ \E env \in { None, Some(EnvToken) } : LoopInit(env)

SpecLoop == InitLoop /\ [][NextLoop]_vars

(***************************************************************************)
(* Properties                                                              *)
(***************************************************************************)
\* the last call has returned to its caller
Returned == pc = "idle" /\ calls > 0
\* the call got as far as send_message
EnteredSend == entry = "send_message" \/ checked
\* the client-message events the call has sent so far, in send order
Sent == SendEvents(wire)
\* byte p (from 1) of the concatenated payloads of the events in e
PayloadByte(e, p) == e[((p - 1) \div 20) + 1].data[((p - 1) % 20) + 1]

\* C1: when send_message has sent every chunk of a buffer of length L, it has
\* sent exactly ceil(L/20) events, each with exactly 20 payload bytes; the
\* first L bytes of the concatenated payloads are the buffer, and every
\* payload byte at a position beyond L is zero.
C1_Chunking ==
    (EnteredSend /\ result.ok) =>
        LET L == Len(message)
            n == Len(Sent)
        IN  /\ n * 20 >= L
            /\ (n - 1) * 20 < L
            /\ \A i \in 1 .. n : Len(Sent[i].data) = 20
            /\ \A p \in 1 .. (n * 20) :
                 PayloadByte(Sent, p) = IF p <= L THEN message[p] ELSE 0

\* C1 witness: a 41-byte message went out as three events, the last one
\* carrying one message byte.
C1_Witness ==
    /\ Returned /\ result.ok
    /\ Len(message) = 41
    /\ Len(Sent) = 3

\* C2: of the events a call sends, the first is tagged with the begin atom
\* and every later one with the continuation atom; a call that sent every
\* chunk has sent exactly one begin-tagged event if the message is not empty
\* and none if it is empty.
C2_Tags ==
    /\ \A i \in 1 .. Len(Sent) :
         Sent[i].type = IF i = 1 THEN "_NET_STARTUP_INFO_BEGIN"
                        ELSE "_NET_STARTUP_INFO"
    /\ (EnteredSend /\ result.ok) =>
         Cardinality({ i \in 1 .. Len(Sent) :
                         Sent[i].type = "_NET_STARTUP_INFO_BEGIN" })
           = IF message = << >> THEN 0 ELSE 1

\* C2 witness: a call has sent a begin event and two continuation events.
C2_Witness ==
    /\ Len(Sent) = 3
    /\ Sent[1].type = "_NET_STARTUP_INFO_BEGIN"
    /\ Sent[3].type = "_NET_STARTUP_INFO"

\* C3: at every moment of a call the events on the connection are the first
\* chunks of the message in order (event i carries bytes 20(i-1)+1 .. 20i),
\* all from the call's proxy window, and a continuation event is on the
\* connection only behind the begin event.
C3_Order ==
    /\ \A i \in 1 .. Len(Sent) :
         /\ Sent[i].window = window
         /\ \A j \in 1 .. 20 :
              (20 * (i - 1) + j <= Len(message)) =>
                  Sent[i].data[j] = message[20 * (i - 1) + j]
    /\ \A i \in 1 .. Len(wire) :
         (wire[i].req = "SendEvent" /\ wire[i].type = "_NET_STARTUP_INFO") =>
             \E j \in 1 .. (i - 1) :
                 /\ wire[j].req = "SendEvent"
                 /\ wire[j].type = "_NET_STARTUP_INFO_BEGIN"

\* C3 witness: the call is in its loop with two of three chunks sent.
C3_Witness ==
    /\ pc = "send"
    /\ Len(message) = 41
    /\ Len(Sent) = 2
    /\ Len(rest) = 1

\* C4 as stated: whenever no call is in progress, no proxy window exists on
\* the server.
C4_Original == (pc = "idle") => live = {}

\* C4 amended: a call that got past creating the proxy window has called
\* destroy_window once it returns, whether it returns Ok or an error; if that
\* request went out the window no longer exists, and the window outlives the
\* call only if the destroy request itself could not be sent.
C4_Cleanup ==
    Returned =>
        /\ (creation \in { "created", "rejected" }) => destroy # "none"
        /\ (destroy = "sent") => window \notin live
        /\ (window \in live) => destroy = "not_sent"
        /\ ~armed

\* C4 witness: the second chunk's send failed, the window had been created,
\* and it is gone when the call has returned its error.
C4_Witness ==
    /\ Returned
    /\ creation = "created"
    /\ result = Err("send_event", 1)
    /\ destroy = "sent"
    /\ window \notin live

\* C5: if the send of chunk k (counted from 0) fails, the call sends nothing
\* after it (exactly the k chunks before it are on the connection), still
\* calls destroy_window, and returns the error of chunk k.
C5_AbortOnError ==
    (failed >= 0) =>
        /\ Len(Sent) = failed
        /\ result = Err("send_event", failed)
        /\ pc \in { "drop", "idle" }
        /\ Returned => destroy # "none"

\* C5 witness: the second of three chunks failed and the call has returned.
C5_Witness ==
    /\ Returned
    /\ Len(message) = 41
    /\ failed = 1
    /\ Len(Sent) = 1
    /\ destroy # "none"

\* C6 as stated: if the proxy window was not created, because no id could be
\* had, the request could not be sent or the server rejected it, send_message
\* returns an error.
C6_Original ==
    (Returned /\ EnteredSend /\ creation \in { "no_id", "not_sent", "rejected" })
        => ~result.ok

\* C6 amended: if no window id could be generated or the create-window
\* request could not be sent, send_message returns that error and sends no
\* event; an error the server answers the create-window request with is
\* discarded and never returned: the call goes on to send the chunks.
C6_CreationError ==
    /\ (Returned /\ creation = "no_id") =>
         (result = Err("generate_id", -1) /\ Sent = << >> /\ destroy = "none"
            /\ window = 0)
    /\ (Returned /\ creation = "not_sent") =>
         (result = Err("create_window", -1) /\ Sent = << >> /\ destroy = "none")
    /\ (Returned /\ creation = "rejected") =>
         (result.ok \/ result.err = "send_event")
    /\ (Returned /\ creation = "rejected" /\ failed = -1) =>
         (result.ok /\ Len(Sent) * 20 >= Len(message))

\* C6 witness: the create-window request could not be sent and the call
\* returned the error.
C6_Witness ==
    /\ Returned
    /\ creation = "not_sent"
    /\ ~result.ok

\* C7: in remove_activation_token, an event of the completion message is on
\* the connection only after the ChangeProperty request that sets
\* _NET_STARTUP_ID of the window to the token went out first and the server
\* confirmed it: the window then carries the token.
C7_PropertyFirst ==
    (entry = "remove_activation_token" /\ Len(Sent) > 0) =>
        /\ checked
        /\ ~cpError
        /\ wire[1] = [ req |-> "ChangeProperty", window |-> target,
                       type |-> "_NET_STARTUP_ID", data |-> startup_id ]
        /\ props[target].present
        /\ props[target].value = startup_id

\* C7 witness: the first chunk of a completion message has just been sent.
C7_Witness ==
    /\ entry = "remove_activation_token"
    /\ pc = "send"
    /\ Len(Sent) = 1
    /\ props[target].value = startup_id

\* "remove: ID=T123" and a null byte: 16 bytes
RemoveT123 ==
    << 114, 101, 109, 111, 118, 101, 58, 32, 73, 68, 61, 84, 49, 50, 51, 0 >>

\* C8: the message remove_activation_token hands to send_message is
\* "remove: ID=", the token, and one null byte (11 + len(token) + 1 bytes);
\* for "T123" these are 16 bytes, and when sent they go out as exactly one
\* 20-byte event tagged begin.
C8_CompletionMessage ==
    /\ (entry = "remove_activation_token" /\ checked) =>
         /\ Len(message) = 11 + Len(startup_id) + 1
         /\ SubSeq(message, 1, 11) =
              << 114, 101, 109, 111, 118, 101, 58, 32, 73, 68, 61 >>
         /\ SubSeq(message, 12, 11 + Len(startup_id)) = startup_id
         /\ message[Len(message)] = 0
    /\ (entry = "remove_activation_token" /\ checked
          /\ startup_id = << 84, 49, 50, 51 >>) =>
         /\ message = RemoveT123
         /\ result.ok =>
              Sent = << [ req |-> "SendEvent", window |-> window,
                          type |-> "_NET_STARTUP_INFO_BEGIN",
                          data |-> RemoveT123 \o << 0, 0, 0, 0 >> ] >>

\* C8 witness: the completion message of "T123" has been sent.
C8_Witness ==
    /\ Returned /\ result.ok
    /\ entry = "remove_activation_token"
    /\ startup_id = << 84, 49, 50, 51 >>
    /\ Len(Sent) = 1

(***************************************************************************)
(* The xorshift step of the claims, by arithmetic on the two 16-bit halves *)
(* << hi, lo >> of a 32-bit number, to compare the bit-level model with.    *)
(***************************************************************************)
RECURSIVE Xor16(_, _)
Xor16(a, b) ==
    IF a = 0 /\ b = 0 THEN 0
    ELSE ((a + b) % 2) + 2 * Xor16(a \div 2, b \div 2)

\* x ^= (x * 2^13) mod 2^32
RefShl13(x) ==
    << Xor16(x[1], (x[1] * 8192 + x[2] \div 8) % 65536),
       Xor16(x[2], (x[2] * 8192) % 65536) >>
\* x ^= x div 2^17
RefShr17(x) == << x[1], Xor16(x[2], x[1] \div 2) >>
\* x ^= (x * 2^5) mod 2^32
RefShl5(x) ==
    << Xor16(x[1], (x[1] * 32 + x[2] \div 2048) % 65536),
       Xor16(x[2], (x[2] * 32) % 65536) >>
RefStep(x) == RefShl5(RefShr17(RefShl13(x)))

RECURSIVE RefIterate(_, _)
RefIterate(x, n) == IF n = 0 THEN x ELSE RefIterate(RefStep(x), n - 1)

\* 0xDEADBEEF
RefSeed == << 57005, 48879 >>

Halves(x) == << Hi(x), Lo(x) >>

\* C9: the k-th sequential call of x11_timestamp returns the xorshift step
\* applied k-1 times to 0xDEADBEEF, which is the seed held before the call,
\* and leaves the seed at the step applied k times (0xDEADBEEF, 0x477D20B7,
\* 0x8E1D9142, ...).
C9_Timestamps ==
    /\ \A k \in 1 .. Len(issued) :
         Halves(issued[k].time) = RefIterate(RefSeed, k - 1)
    /\ Halves(SEED) = RefIterate(RefSeed, Len(issued))
    /\ Len(issued) >= 1 => Halves(issued[1].time) = << 57005, 48879 >>
    /\ Len(issued) >= 2 => Halves(issued[2].time) = << 18301, 8375 >>
    /\ Len(issued) >= 3 => Halves(issued[3].time) = << 36381, 37186 >>

\* C9 witness: three calls have returned and the seed is 0xBA8C2458.
C9_Witness ==
    /\ Len(issued) = 3
    /\ tpc[MainThread] = "idle"
    /\ Halves(SEED) = << 47756, 9304 >>

\* C10: the timestamps returned by the sequential calls of
\* request_activation_token made so far in this process are pairwise
\* distinct, and so are the tokens.
C10_DistinctTokens ==
    \A i, j \in 1 .. Len(issued) :
        (i # j) =>
            /\ issued[i].time # issued[j].time
            /\ issued[i].token # issued[j].token

\* C10 witness: five tokens have been issued, and the first is node name,
\* pid, "_TIME" and 3735928559 in decimal.
C10_Witness ==
    /\ Len(issued) >= 5
    /\ issued[1].token =
         NodenameStr(nodename) \o DecimalNat(pid)
           \o << 95, 84, 73, 77, 69 >>
           \o << 51, 55, 51, 53, 57, 50, 56, 53, 53, 57 >>

\* C11: with callers running x11_timestamp at the same time, no two calls
\* return the same timestamp, and no advance of the seed is lost: once every
\* call has returned, the seed is the step applied once per call.
C11_Atomic ==
    /\ \A i, j \in 1 .. Len(issued) :
         (i # j) => issued[i].time # issued[j].time
    /\ (\A c \in Callers : tpc[c] = "idle") =>
         Halves(SEED) = RefIterate(RefSeed, Len(issued))

\* C17: if setting _NET_STARTUP_ID fails in remove_activation_token, because
\* the request could not be sent or because the server reported an error at
\* check(), the call returns that error at once: it generates no window id,
\* creates no proxy window and sends no chunk.
C17_PropertyError ==
    /\ (entry = "remove_activation_token" /\ cpError /\ pc # "check") =>
         /\ pc = "idle"
         /\ result = Err("check", -1)
    /\ (entry = "remove_activation_token"
          /\ result.err \in { "change_property", "check" }) =>
         /\ pc = "idle"
         /\ ~checked
         /\ window = 0
         /\ creation = "none"
         /\ destroy = "none"
         /\ message = << >>
         /\ \A i \in 1 .. Len(wire) : wire[i].req = "ChangeProperty"
         /\ (result.err = "change_property") => wire = << >>

\* C17 witness: the server answered ChangeProperty with an error and the call
\* has returned it.
C17_Witness ==
    /\ Returned
    /\ entry = "remove_activation_token"
    /\ cpError
    /\ result = Err("check", -1)
    /\ Len(wire) = 1

\* C18: starting from 0xDEADBEEF, the stored seed and every timestamp
\* returned by the sequential calls are non-zero.
C18_NonZero ==
    /\ SEED # {}
    /\ Halves(SEED) # << 0, 0 >>
    /\ \A k \in 1 .. Len(issued) :
         /\ issued[k].time # {}
         /\ DecimalU32(issued[k].time) # << 48 >>

\* C18 witness: five calls have returned.
C18_Witness ==
    /\ Len(issued) = 5
    /\ tpc[MainThread] = "idle"
    /\ SEED # {}

(***************************************************************************)
(* Properties of the example's event loop                                  *)
(***************************************************************************)
\* the closure has just run (no time has passed since)
JustRan == lastEvent \notin { "none", "Tick" }
\* a token was requested and no token-ready event has been delivered yet
Unanswered == requests > 0 /\ delivered = << >> /\ pending # {}
\* tokens attached to the windows built so far
Attached == { built[i].token.val : i \in { j \in 1 .. Len(built) : built[j].token.some } }

C13_Original ==
    /\ (lastEvent = "ActivationTokenDone") =>
         /\ current_token = Some(delivered[Len(delivered)].tok)
         /\ window_deadline = Some(now + DeadlineMillis)
    /\ \A k \in 1 .. Len(delivered) :
         Len(built) > delivered[k].nbuilt =>
           built[delivered[k].nbuilt + 1].token = Some(delivered[k].tok)

\* C14: a call of the closure that has built a window leaves no token and no
\* deadline, and no token is attached to two windows.
C14_Consumed ==
    /\ createdNow => ~current_token.some /\ ~window_deadline.some
    /\ \A i, j \in 1 .. Len(built) :
         (i < j /\ built[i].token.some) => built[i].token # built[j].token

\* C14 witness: the closure has just built a second window carrying a token
\* after an earlier window carried another token.
C14_Witness ==
    /\ createdNow
    /\ Len(built) >= 2
    /\ built[Len(built)].token.some
    /\ built[Len(built) - 1].token.some

\* C15 as stated: when the token request after a user trigger fails the
\* closure abandons the attempt and the loop keeps running; the process is
\* never terminated by a failure.
C15_Original ==
    /\ (lastEvent = "KeyboardInput:failed") => status = "running"
    /\ status # "panicked"

\* C16 as stated: the token of a request whose window was closed while the
\* request was pending is never stored and never attached to a window.
C16_Original ==
    /\ current_token.some => current_token.val \notin orphaned
    /\ Attached \cap orphaned = {}

\* C19: the windows built never outnumber the token-ready events delivered by
\* more than the one start-up window, every window built was counted once,
\* and the closure that has just built a window leaves no deadline that a
\* later call could find expired.
C19_Bounded ==
    /\ Len(built) <= 1 + Len(delivered)
    /\ counter = Len(built)
    /\ \A i \in 1 .. Len(built) : built[i].id = i
    /\ createdNow => ~window_deadline.some

\* C19 witness: two token-ready events, delivered two seconds apart, have each
\* been followed by a window, after the start-up window.
C19_Witness ==
    /\ Len(built) = 3
    /\ Len(delivered) = 2
    /\ createdNow

\* C20 as stated (its safety part): while the loop runs no delivered token is
\* lost: each one is either held, waiting for its window, or attached to a
\* window already built.
C20_Original ==
    status = "running" =>
      \A k \in 1 .. Len(delivered) :
        \/ current_token = Some(delivered[k].tok)
        \/ delivered[k].tok \in Attached
=============================================================================
